---- MODULE Spec2Model ----
(***************************************************************************)
(* droid-acp: the bridge between the ACP client and one `droid exec`       *)
(* child process.  One session is modelled: the adapter created by         *)
(* createDroidAdapter (src/unnamed/part_003, lines 243-518) and the        *)
(* session record kept by DroidAcpAgent (src/src/acp-agent.ts, lines       *)
(* 259-740).  A second session of the same agent is kept in less detail:   *)
(* its place in the session map, its mode, flags and pending prompt, and   *)
(* its keys in the MCP config file that the two share.  Pushable           *)
(* (src/unnamed/part_001, lines 6-41) is modelled on its own.              *)
(*                                                                         *)
(* Granularity.  Node runs one callback at a time.  A handler is cut into  *)
(* steps at the awaits that wait for something outside the process:        *)
(* `await this.client.sessionUpdate(...)` and the file I/O on the MCP      *)
(* config in newSession and in the cleanup.  An await on a promise that    *)
(* is already settled by synchronous code (`await emit(...)` of a          *)
(* notification whose handler awaits nothing) only yields to the           *)
(* microtask queue; the code after it touches the adapter's private flags  *)
(* only, so it is taken in the same step.                                  *)
(*                                                                         *)
(* A line's text is read by nobody before handleLine parses it, so the     *)
(* queue holds the lines' arrival numbers and the content is drawn when    *)
(* the line is handled.                                                    *)
(*                                                                         *)
(* The handlers write disjoint parts of the state (the adapter's flags,    *)
(* the tool-call maps, the prompt slot), so the module states one          *)
(* specification per part: each takes the actions and the line contents    *)
(* that reach that part, all from the same definitions.                    *)
(***************************************************************************)
EXTENDS Integers, Sequences, FiniteSets, TLC

\* Bounds of the model.
MaxQueue == 2       \* lines waiting in the promise chain
MaxLines == 4       \* lines the child writes in one run
MaxPrompts == 2     \* prompt calls accepted in one run
MaxPush == 3        \* values pushed to the Pushable in one run
MaxNext == 4        \* next() calls on its iterator in one run
MaxCleanups == 2    \* cancel calls in one run

SessionKeys == {"a-s1", "b-s1"}   \* session.mcpServerKeys
OtherKeys == {"c-s2"}       \* the keys of the other session that shares the file
UserKeys == {"user"}        \* a key that is in the file before any session
OtherIds == {"s2"}          \* the other session in DroidAcpAgent.sessions

ToolIds == {"t1"}
NoTool == "none"
ModeIds == {"low", "medium", "high", "other"}
ModelIds == {"m1", "m2"}
EnvValues == {"absent", "empty", "key"}
AuthMethods == {"factory-api-key", "other"}
RiskLevels == {"low", "medium", "high", "none"}

VARIABLES
    process,                \* adapter: `process` ("running" or "null")
    childAlive,             \* the OS process has not exited yet
    stdinEnded,             \* `process.stdin.end()` was called
    signals,                \* SIGTERM signals sent to the child
    exitCalls,              \* invocations of the registered exit handlers
    initResolve,            \* adapter: initResolve / initReject are set
    started,                \* the promise of start(): "none" (not called), "pending",
                            \* "failing" (pending, the spawn has failed and the error
                            \* event is due), "resolved", "init_error",
                            \* "process_error", "timeout"
    initTimer,              \* the init timer is armed and has not fired
    exitedEarly,            \* history: the child exited while start() was pending
                            \* and no line of it was left to handle
    isStreamingAssistant,   \* adapter flag
    pendingIdle,            \* adapter flag
    tally,                  \* history: the idle lines handled and the completes
                            \* emitted, counted while the lines are numbered
    queue,                  \* arrival numbers of the lines chained, not yet handled
    nextLine,               \* arrival number of the next line the child writes
                            \* (0 in the runs that do not number the lines)
    lines,                  \* handleLine invocations: the running ones and the last finished
    inMap,                  \* the session is in DroidAcpAgent.sessions
    mode,                   \* session.mode
    model,                  \* session.model
    lastSet,                \* history: the last setSessionMode or setSessionModel
                            \* call, what it handed to the adapter's setMode and
                            \* what that wrote to the child
    env,                    \* process.env.FACTORY_API_KEY
    lastAuth,               \* history: the last authenticate call and its outcome
    pushable,               \* a Pushable and its one iterator: queue, done, where the
                            \* generator is (resolvers holds a resolver exactly when
                            \* it is "waiting"), the next() calls not yet answered,
                            \* and as history the values pushed and the results given
    cancelled,              \* session.cancelled
    promptResolve,          \* session.promptResolve: 0 (null) or the prompt it belongs to
    toolCallStatus,         \* session.toolCallStatus ("none": no entry)
    activeToolCallIds,      \* session.activeToolCallIds
    nPrompts,               \* prompt calls accepted so far
    resolved,               \* per prompt: how its promise was resolved
    timers,                 \* prompts whose 5-minute timer is armed and has not fired
    cleanups,               \* cleanup continuations (cancel, exit handler) awaiting file I/O
    nCancels,               \* cancel calls made so far
    file,                   \* the keys of mcpServers in .factory/mcp.json
    onDisk,                 \* .factory/mcp.json exists
    mcp,                    \* newSession's part that writes the config: where it
                            \* is, and the config it has read
    snaps,                  \* the configs read by the cleanups that have not written yet
    lastCleanup,            \* history: the config the last cleanup that wrote had
                            \* read, and what it left
    others,                 \* the other sessions in DroidAcpAgent.sessions
    other,                  \* the other session: where its newSession or its
                            \* cleanup is, and the config that one has read
    lastPrompt,             \* the last prompt call: how it ended, whether the
                            \* session was known and cancelled when it was made,
                            \* and the number of the child's next line then
    turn,                   \* history: the child's current turn, see TurnAfterMessage
    deferred,               \* history: an idle line arrived while a streaming state
                            \* was pending, and no assistant message, streaming or
                            \* error line has been handled since
    abandoned,              \* history: an error line was handled while deferred
                            \* held, and no working-state line has been handled since
    pat                     \* history: progress in the sequence streaming, idle

vars == <<process, childAlive, stdinEnded, signals, exitCalls, initResolve, started,
          initTimer, exitedEarly, isStreamingAssistant, pendingIdle, tally, queue,
          nextLine,
          lines, inMap, mode, model, lastSet, env, lastAuth, pushable, cancelled, promptResolve,
          toolCallStatus,
          activeToolCallIds, nPrompts, resolved, timers, cleanups, nCancels,
          file, onDisk, mcp, snaps, lastCleanup, others, other, lastPrompt, turn,
          deferred, abandoned, pat>>

killVars == <<stdinEnded, signals>>
startVars == <<initResolve, started, initTimer, exitedEarly>>
procVars == <<process, childAlive, killVars, exitCalls, startVars>>
flagVars == <<isStreamingAssistant, pendingIdle, tally>>
authVars == <<env, lastAuth>>
facadeVars == <<authVars, pushable>>
modeVars == <<mode, model, lastSet, facadeVars>>
sessVars == <<inMap, modeVars, cancelled>>
promptVars == <<promptResolve, resolved>>
toolVars == <<toolCallStatus, activeToolCallIds>>
timerVars == <<nPrompts, timers, lastPrompt>>
otherVars == <<others, other>>
cfgVars == <<file, onDisk, mcp, snaps, lastCleanup, otherVars>>
cleanVars == <<cleanups, nCancels, cfgVars>>

PromptIds == 1..MaxPrompts

\* The record of the other session, as newSession makes it.
OtherAt(pc) ==
    [pc |-> pc, snap |-> {}, mode |-> "medium", cancelled |-> FALSE, pending |-> FALSE]

\* new Pushable() and its iterator, before the first next().
NewPushable ==
    [queue |-> <<>>, done |-> FALSE, pc |-> "idle", val |-> 0, nexts |-> 0, calls |-> 0,
     n |-> 0, nAtClose |-> 0, out |-> <<>>]

NoTally == [idle |-> 0, complete |-> 0]

NoAuth == [method |-> "none", result |-> "none"]

NoSet == [op |-> "none", known |-> TRUE, arg |-> "none", level |-> "none", wrote |-> "none"]

NoCleanup == [done |-> FALSE, from |-> {}, left |-> {}, unlinked |-> FALSE]

NoCall == [err |-> "nocall", known |-> TRUE, cancelled |-> FALSE, stored |-> FALSE, at |-> 0]

Unresolved == [stop |-> "none", by |-> "none", timer |-> 0, stale |-> FALSE, count |-> 0]

\* The content of one line of the child's stdout, as handleLine tells lines apart.
Content(kind, role, text, tool, risk) ==
    [kind |-> kind, role |-> role, text |-> text, tool |-> tool, risk |-> risk]

LineContents ==
    {Content("malformed", "none", FALSE, NoTool, "none")}
    \cup {Content(k, "none", FALSE, NoTool, "none") : k \in {"streaming", "idle", "error"}}
    \cup {Content("message", "user", TRUE, NoTool, "none")}
    \cup {Content("message", "assistant", tx, t, "none") :
             tx \in BOOLEAN, t \in ToolIds \cup {NoTool}}
    \cup {Content("tool_result", "none", FALSE, t, "none") : t \in ToolIds}
    \cup {Content("request", "none", FALSE, NoTool, "none")}
    \cup {Content("request", "none", FALSE, t, k) : t \in ToolIds, k \in RiskLevels}
    \cup {Content("request_other", "none", FALSE, NoTool, "none")}

InitSession ==
    /\ process = "running"
    /\ childAlive = TRUE
    /\ stdinEnded = FALSE
    /\ signals = 0
    /\ exitCalls = 0
    /\ initResolve = FALSE
    /\ started = "resolved"
    /\ initTimer = FALSE
    /\ exitedEarly = FALSE
    /\ isStreamingAssistant = FALSE
    /\ pendingIdle = FALSE
    /\ tally = NoTally
    /\ queue = <<>>
    /\ lines = <<>>
    /\ inMap = TRUE
    /\ mode = "medium"
    /\ model = "m1"
    /\ lastSet = NoSet
    /\ lastAuth = NoAuth
    /\ pushable = NewPushable
    /\ cancelled = FALSE
    /\ promptResolve = 0
    /\ toolCallStatus = [t \in ToolIds |-> "none"]
    /\ activeToolCallIds = {}
    /\ nPrompts = 0
    /\ resolved = [p \in PromptIds |-> Unresolved]
    /\ timers = {}
    /\ cleanups = 0
    /\ nCancels = 0
    /\ file = SessionKeys \cup OtherKeys
    /\ onDisk = TRUE
    /\ mcp = [pc |-> "written", snap |-> {}]
    /\ snaps = <<>>
    /\ lastCleanup = NoCleanup
    /\ others = OtherIds
    /\ other = OtherAt("live")
    /\ lastPrompt = NoCall
    /\ turn = "open"
    /\ deferred = FALSE
    /\ abandoned = FALSE
    /\ pat = 0

\* The state after newSession has returned.
Init == InitSession /\ nextLine = 0 /\ env = "key"

\* The same, in a run that numbers the lines in their order of arrival.
InitNumbered == InitSession /\ nextLine = 1 /\ env = "key"

\* The same, with the API key set, set to the empty string, or not set.
InitAuth == InitSession /\ nextLine = 0 /\ env \in EnvValues

\* The state when newSession is about to call start(): no child, no session.
InitStart ==
    /\ process = "null"
    /\ childAlive = FALSE
    /\ stdinEnded = FALSE
    /\ signals = 0
    /\ exitCalls = 0
    /\ initResolve = FALSE
    /\ started = "none"
    /\ initTimer = FALSE
    /\ exitedEarly = FALSE
    /\ isStreamingAssistant = FALSE
    /\ pendingIdle = FALSE
    /\ tally = NoTally
    /\ queue = <<>>
    /\ nextLine = 0
    /\ lines = <<>>
    /\ inMap = FALSE
    /\ mode = "medium"
    /\ model = "m1"
    /\ lastSet = NoSet
    /\ lastAuth = NoAuth
    /\ pushable = NewPushable
    /\ env = "key"
    /\ cancelled = FALSE
    /\ promptResolve = 0
    /\ toolCallStatus = [t \in ToolIds |-> "none"]
    /\ activeToolCallIds = {}
    /\ nPrompts = 0
    /\ resolved = [p \in PromptIds |-> Unresolved]
    /\ timers = {}
    /\ cleanups = 0
    /\ nCancels = 0
    /\ file = SessionKeys \cup OtherKeys
    /\ onDisk = TRUE
    /\ mcp = [pc |-> "written", snap |-> {}]
    /\ snaps = <<>>
    /\ lastCleanup = NoCleanup
    /\ others = OtherIds
    /\ other = OtherAt("live")
    /\ lastPrompt = NoCall
    /\ turn = "open"
    /\ deferred = FALSE
    /\ abandoned = FALSE
    /\ pat = 0

\* The state when the first newSession is called: no session, and a config
\* file only if the user has one.
InitFresh ==
    /\ process = "null"
    /\ childAlive = FALSE
    /\ stdinEnded = FALSE
    /\ signals = 0
    /\ exitCalls = 0
    /\ initResolve = FALSE
    /\ started = "none"
    /\ initTimer = FALSE
    /\ exitedEarly = FALSE
    /\ isStreamingAssistant = FALSE
    /\ pendingIdle = FALSE
    /\ tally = NoTally
    /\ queue = <<>>
    /\ lines = <<>>
    /\ inMap = FALSE
    /\ mode = "medium"
    /\ model = "m1"
    /\ lastSet = NoSet
    /\ lastAuth = NoAuth
    /\ pushable = NewPushable
    /\ env = "key"
    /\ cancelled = FALSE
    /\ promptResolve = 0
    /\ toolCallStatus = [t \in ToolIds |-> "none"]
    /\ activeToolCallIds = {}
    /\ nPrompts = 0
    /\ resolved = [p \in PromptIds |-> Unresolved]
    /\ timers = {}
    /\ cleanups = 0
    /\ nCancels = 0
    /\ file \in {{}, UserKeys}
    /\ onDisk = (file # {})
    /\ mcp = [pc |-> "none", snap |-> {}]
    /\ snaps = <<>>
    /\ lastCleanup = NoCleanup
    /\ others = {}
    /\ other = OtherAt("none")
    /\ lastPrompt = NoCall
    /\ turn = "open"
    /\ deferred = FALSE
    /\ abandoned = FALSE
    /\ pat = 0

InitCfg == InitFresh /\ nextLine = 0

\* The same, in a run that numbers the lines in their order of arrival.
InitHello == InitFresh /\ nextLine = 1

(***************************************************************************)
(* The adapter: queueLine and handleLine.                                  *)
(***************************************************************************)

\* queueLine without the chain: `handleLine(line)` is called as the line arrives.
ChainReadyUnchained == TRUE

\* queueLine: `processingChain.then(() => handleLine(line))` starts a line when
\* every handleLine chained before it has settled.
ChainReady == \A i \in DOMAIN lines : lines[i].pc = "done"

Running(r) == r.pc # "done"

\* The record of a handleLine invocation that starts now on content c.
New(c) ==
    [n |-> Head(queue), kind |-> c.kind, role |-> c.role, text |-> c.text,
     tool |-> c.tool, risk |-> c.risk, pc |-> "done", out |-> <<>>,
     s0 |-> isStreamingAssistant, d0 |-> deferred, a0 |-> abandoned, pat |-> pat,
     dm |-> "none", sel |-> "none"]

\* lines with invocation i replaced by r; i = 0: r is a new invocation (the
\* record of the last finished one is dropped).
Put(i, r) ==
    IF i = 0 THEN Append(SelectSeq(lines, Running), r)
    ELSE [lines EXCEPT ![i] = r]

\* The tally after k more idle lines and c more completes.
Tallied(k, c) ==
    IF nextLine = 0 THEN tally
    ELSE [idle |-> tally.idle + k, complete |-> tally.complete + c]

\* An idle line that is always taken as the end of the turn.
IdleDefersNever(streaming) == FALSE

\* An idle line that never completes by itself.
IdleDefersAlways(streaming) == TRUE

\* `if (isStreamingAssistant)` on an idle line: the complete is deferred.
IdleDefers(streaming) == streaming

Settle(old, stop, by, timer, stale) ==
    [stop |-> stop, by |-> by, timer |-> timer, stale |-> stale,
     count |-> IF old.count < 2 THEN old.count + 1 ELSE 2]

\* A complete notification that resolves nothing.
HandleCompleteIgnored == UNCHANGED promptVars

\* handleNotification, case "complete": resolves the pending prompt.
HandleComplete ==
    /\ promptResolve' = 0
    /\ resolved' = IF promptResolve # 0
                   THEN [resolved EXCEPT
                           ![promptResolve] = Settle(@, "end_turn", "complete", 0, FALSE)]
                   ELSE resolved

\* What emit({type: "complete"}) adds to the line's output.
CompleteOut ==
    IF promptResolve # 0 THEN <<"complete", "resolve">> ELSE <<"complete">>

\* History of the turn: "open" from the user message that starts it until the
\* adapter emits complete, then "done", and "late" once an assistant message
\* notification is emitted after that.
TurnAfterComplete(tn) == IF tn = "open" THEN "done" ELSE tn

TurnAfterMessage == IF turn = "done" THEN "late" ELSE turn

\* History of the sequence streaming, idle: 1 after a streaming line, 2 after an
\* idle line that follows it at once (3 if complete was emitted on that idle).
NextPat(kind, completed) ==
    IF kind = "streaming" THEN 1
    ELSE IF kind = "idle" /\ pat = 1 THEN (IF completed THEN 3 ELSE 2)
    ELSE 0

\* A parse failure that resets the adapter's flags.
BeginMalformedResets(c) ==
    /\ c.kind = "malformed"
    /\ lines' = Put(0, New(c))
    /\ pat' = NextPat(c.kind, FALSE)
    /\ isStreamingAssistant' = FALSE
    /\ pendingIdle' = FALSE
    /\ UNCHANGED tally
    /\ UNCHANGED <<promptVars, toolVars, turn, deferred, abandoned>>

\* JSON.parse throws: the catch logs and drops the line.
BeginMalformed(c) ==
    /\ c.kind = "malformed"
    /\ lines' = Put(0, New(c))
    /\ pat' = NextPat(c.kind, FALSE)
    /\ UNCHANGED <<flagVars, promptVars, toolVars, turn, deferred, abandoned>>

\* droid_working_state_changed, newState streaming_assistant_message.
BeginStreaming(c) ==
    /\ c.kind = "streaming"
    /\ isStreamingAssistant' = TRUE
    /\ pendingIdle' = FALSE
    /\ UNCHANGED tally
    /\ lines' = Put(0, [New(c) EXCEPT !.out = <<"working_state">>])
    /\ pat' = NextPat(c.kind, FALSE)
    /\ deferred' = FALSE
    /\ abandoned' = FALSE
    /\ UNCHANGED <<promptVars, toolVars, turn>>

\* droid_working_state_changed, newState idle.
BeginIdle(c) ==
    /\ c.kind = "idle"
    /\ deferred' = (deferred \/ isStreamingAssistant)
    /\ abandoned' = FALSE
    /\ UNCHANGED <<isStreamingAssistant, toolVars>>
    /\ IF IdleDefers(isStreamingAssistant)
       THEN /\ pendingIdle' = TRUE
            /\ tally' = Tallied(1, 0)
            /\ lines' = Put(0, [New(c) EXCEPT !.out = <<"working_state">>])
            /\ pat' = NextPat(c.kind, FALSE)
            /\ UNCHANGED <<promptVars, turn>>
       ELSE /\ HandleComplete
            /\ lines' = Put(0, [New(c) EXCEPT !.out = <<"working_state">> \o CompleteOut])
            /\ pat' = NextPat(c.kind, TRUE)
            /\ turn' = TurnAfterComplete(turn)
            /\ tally' = Tallied(1, 1)
            /\ UNCHANGED pendingIdle

\* A handleLine that emits the deferred complete and leaves pendingIdle set.
AfterMessageKeepsIdle(i, r, tn) ==
    IF r.role = "assistant"
    THEN /\ isStreamingAssistant' = pendingIdle
         /\ UNCHANGED pendingIdle
         /\ IF pendingIdle
            THEN /\ HandleComplete
                 /\ tally' = Tallied(0, 1)
                 /\ lines' = Put(i, [r EXCEPT !.out = @ \o CompleteOut, !.pc = "done"])
                 /\ turn' = TurnAfterComplete(tn)
            ELSE /\ lines' = Put(i, [r EXCEPT !.pc = "done"])
                 /\ turn' = tn
                 /\ UNCHANGED <<promptVars, tally>>
    ELSE /\ lines' = Put(i, [r EXCEPT !.pc = "done"])
         /\ turn' = tn
         /\ UNCHANGED <<flagVars, promptVars>>

\* handleLine after `await emit({type: "message", ...})` has returned.
AfterMessage(i, r, tn) ==
    IF r.role = "assistant"
    THEN /\ isStreamingAssistant' = FALSE
         /\ pendingIdle' = FALSE
         /\ IF pendingIdle
            THEN /\ HandleComplete
                 /\ tally' = Tallied(0, 1)
                 /\ lines' = Put(i, [r EXCEPT !.out = @ \o CompleteOut, !.pc = "done"])
                 /\ turn' = TurnAfterComplete(tn)
            ELSE /\ lines' = Put(i, [r EXCEPT !.pc = "done"])
                 /\ turn' = tn
                 /\ UNCHANGED <<promptVars, tally>>
    ELSE /\ lines' = Put(i, [r EXCEPT !.pc = "done"])
         /\ turn' = tn
         /\ UNCHANGED <<flagVars, promptVars>>

\* A message handler that returns without sending the text.
MessageTextDropped(i, r, tn) == AfterMessage(i, r, tn)

\* handleNotification, case "message": the text part, `if (n.text)`.
MessageText(i, r, tn) ==
    IF r.text
    THEN /\ lines' = Put(i, [r EXCEPT !.out = Append(@, "chunk"), !.pc = "m_end"])
         /\ turn' = tn
         /\ UNCHANGED <<flagVars, promptVars>>
    ELSE AfterMessage(i, r, tn)

\* handleNotification, case "message": which update an inline tool-use sends.
MsgToolUpdate(t) ==
    IF t \notin activeToolCallIds THEN "tool_call"
    ELSE IF toolCallStatus[t] # "completed" THEN "tool_call_update"
    ELSE "none"

\* create_message.
BeginMessage(c) ==
    /\ c.kind = "message"
    /\ pat' = NextPat(c.kind, FALSE)
    /\ IF ~c.text /\ c.tool = NoTool
       THEN /\ lines' = Put(0, New(c))
            /\ UNCHANGED <<flagVars, promptVars, toolVars, turn, deferred, abandoned>>
       ELSE IF c.role # "assistant"
       THEN /\ lines' = Put(0, [New(c) EXCEPT !.out = <<"message">>])
            /\ UNCHANGED <<flagVars, promptVars, toolVars, turn, deferred, abandoned>>
       ELSE LET e == [New(c) EXCEPT !.out = <<"message">>]
                tn == TurnAfterMessage
            IN  /\ deferred' = FALSE
                /\ UNCHANGED abandoned
                /\ IF c.tool # NoTool /\ MsgToolUpdate(c.tool) # "none"
                   THEN /\ toolCallStatus' = [toolCallStatus EXCEPT ![c.tool] = "in_progress"]
                        /\ activeToolCallIds' = activeToolCallIds \cup {c.tool}
                        /\ lines' = Put(0, [e EXCEPT !.out = Append(@, MsgToolUpdate(c.tool)),
                                                     !.pc = "m_text"])
                        /\ turn' = tn
                        /\ UNCHANGED <<flagVars, promptVars>>
                   ELSE /\ UNCHANGED toolVars
                        /\ MessageText(0, e, tn)

\* A tool_result handler that sends the content and the status in one update.
BeginToolResultMerged(c) ==
    /\ c.kind = "tool_result"
    /\ lines' = Put(0, [New(c) EXCEPT !.out = <<"tool_result", "update:completed">>,
                                      !.pc = "end"])
    /\ toolCallStatus' = [toolCallStatus EXCEPT ![c.tool] = "completed"]
    /\ pat' = NextPat(c.kind, FALSE)
    /\ UNCHANGED <<activeToolCallIds, flagVars, promptVars, turn, deferred, abandoned>>

\* tool_result: the content update is sent first.
BeginToolResult(c) ==
    /\ c.kind = "tool_result"
    /\ lines' = Put(0, [New(c) EXCEPT !.out = <<"tool_result", "update:content">>,
                                      !.pc = "r_status"])
    /\ pat' = NextPat(c.kind, FALSE)
    /\ UNCHANGED <<flagVars, promptVars, toolVars, turn, deferred, abandoned>>

\* An error line that leaves the flags as they are.
BeginErrorKeepsFlags(c) ==
    /\ c.kind = "error"
    /\ lines' = Put(0, [New(c) EXCEPT !.out = <<"error", "chunk:error">>, !.pc = "end"])
    /\ pat' = NextPat(c.kind, FALSE)
    /\ deferred' = FALSE
    /\ abandoned' = (abandoned \/ deferred)
    /\ UNCHANGED <<flagVars, promptVars, toolVars, turn>>

\* error: both flags are cleared before the notification is emitted.
BeginError(c) ==
    /\ c.kind = "error"
    /\ isStreamingAssistant' = FALSE
    /\ pendingIdle' = FALSE
    /\ UNCHANGED tally
    /\ lines' = Put(0, [New(c) EXCEPT !.out = <<"error", "chunk:error">>, !.pc = "end"])
    /\ pat' = NextPat(c.kind, FALSE)
    /\ deferred' = FALSE
    /\ abandoned' = (abandoned \/ deferred)
    /\ UNCHANGED <<promptVars, toolVars, turn>>

\* `if (process?.stdin)`: the response is written while the adapter holds the process.
Response(sel) == IF process = "running" THEN <<"response:" \o sel>> ELSE <<>>

\* handlePermission: `toolUse.input?.riskLevel || "medium"`.
RiskOf(declared) == IF declared = "none" THEN "medium" ELSE declared

\* handlePermission: the decision from the session's mode and the risk level.
Decide(m, risk) ==
    IF m = "high" THEN "proceed_always"
    ELSE IF m = "medium"
         THEN (IF risk = "low" \/ risk = "medium" THEN "proceed_once" ELSE "cancel")
    ELSE "cancel"

\* newSession registers the request handler when start() has resolved.
Registered == started = "resolved"

\* A handlePermission that decides and answers without telling the client.
BeginRequestSilent(c) ==
    /\ c.kind = "request"
    /\ c.tool # NoTool
    /\ pat' = NextPat(c.kind, FALSE)
    /\ UNCHANGED <<flagVars, promptVars, turn, deferred, abandoned>>
    /\ LET d == Decide(mode, RiskOf(c.risk)) IN
         /\ activeToolCallIds' = activeToolCallIds \cup {c.tool}
         /\ toolCallStatus' = [toolCallStatus EXCEPT
                ![c.tool] = IF d = "cancel" THEN "completed" ELSE "in_progress"]
         /\ lines' = Put(0, [New(c) EXCEPT !.sel = d, !.dm = mode, !.out = Response(d)])

\* A droid.request_permission request: the fallback of handleLine when no
\* handler is registered, else handlePermission up to its sessionUpdate.
BeginRequest(c) ==
    /\ c.kind = "request"
    /\ pat' = NextPat(c.kind, FALSE)
    /\ UNCHANGED <<flagVars, promptVars, turn, deferred, abandoned>>
    /\ IF ~Registered
       THEN /\ lines' = Put(0, [New(c) EXCEPT !.sel = "fallback",
                                              !.out = Response("proceed_once")])
            /\ UNCHANGED toolVars
       ELSE IF c.tool = NoTool
       THEN /\ lines' = Put(0, [New(c) EXCEPT !.sel = "proceed_once", !.dm = mode,
                                              !.out = Response("proceed_once")])
            /\ UNCHANGED toolVars
       ELSE /\ activeToolCallIds' = activeToolCallIds \cup {c.tool}
            /\ toolCallStatus' = [toolCallStatus EXCEPT ![c.tool] = "pending"]
            /\ lines' = Put(0, [New(c) EXCEPT !.out = <<"tool_call:pending">>,
                                              !.pc = "p_decide"])

\* A request handler whose error escapes to the catch of handleLine.
BeginRequestOtherUncaught(c) ==
    /\ c.kind = "request_other"
    /\ lines' = Put(0, [New(c) EXCEPT !.sel = IF Registered THEN "error" ELSE "none"])
    /\ pat' = NextPat(c.kind, FALSE)
    /\ UNCHANGED <<flagVars, promptVars, toolVars, turn, deferred, abandoned>>

\* A request of another method: the request handler throws, an error is
\* answered; with no handler registered nothing is answered.
BeginRequestOther(c) ==
    /\ c.kind = "request_other"
    /\ lines' = IF Registered
                THEN Put(0, [New(c) EXCEPT !.sel = "error", !.out = Response("error")])
                ELSE Put(0, New(c))
    /\ pat' = NextPat(c.kind, FALSE)
    /\ UNCHANGED <<flagVars, promptVars, toolVars, turn, deferred, abandoned>>

\* The promise chain starts the next line, whose content is one of C.
StartLine(C) ==
    /\ queue # <<>>
    /\ ChainReady
    /\ queue' = Tail(queue)
    /\ UNCHANGED <<procVars, nextLine, sessVars, timerVars, cleanVars>>
    /\ \E c \in C :
          \/ BeginMalformed(c)
          \/ BeginStreaming(c)
          \/ BeginIdle(c)
          \/ BeginMessage(c)
          \/ BeginToolResult(c)
          \/ BeginError(c)
          \/ BeginRequest(c)
          \/ BeginRequestOther(c)

\* The response lines of handleLine: the answer to droid.initialize_session.
InitContents ==
    {Content(k, "none", FALSE, NoTool, "none") : k \in {"init_response", "init_error"}}

\* The promise chain starts a response line.  While initResolve is set the
\* line settles start(), and newSession goes on to register the session and
\* its handlers; otherwise the line matches no branch.
StartInitLine ==
    /\ queue # <<>>
    /\ ChainReady
    /\ queue' = Tail(queue)
    /\ \E c \in InitContents :
          /\ lines' = Put(0, New(c))
          /\ pat' = NextPat(c.kind, FALSE)
          /\ IF initResolve
             THEN /\ initResolve' = FALSE
                  /\ started' = IF started \notin {"pending", "failing"} THEN started
                                ELSE IF c.kind = "init_response" THEN "resolved"
                                ELSE "init_error"
                  /\ inMap' = (started \in {"pending", "failing"} /\ c.kind = "init_response")
             ELSE UNCHANGED <<initResolve, started, inMap>>
    /\ UNCHANGED <<process, childAlive, killVars, exitCalls, initTimer, exitedEarly,
                   flagVars, nextLine, modeVars, cancelled, promptVars, toolVars, timerVars,
                   cleanVars, turn, deferred, abandoned>>

\* The sessionUpdate of the inline tool-use has returned.
ResumeMsgTool(i) ==
    /\ lines[i].pc = "m_text"
    /\ MessageText(i, lines[i], turn)
    /\ UNCHANGED <<toolVars, deferred, abandoned>>

\* The sessionUpdate of the message chunk has returned.
ResumeMsgText(i) ==
    /\ lines[i].pc = "m_end"
    /\ AfterMessage(i, lines[i], turn)
    /\ UNCHANGED <<toolVars, deferred, abandoned>>

\* A tool_result handler that sends the status update and records nothing.
ResumeResultStatusUnrecorded(i) ==
    /\ lines[i].pc = "r_status"
    /\ lines' = Put(i, [lines[i] EXCEPT !.out = Append(@, "update:completed"), !.pc = "end"])
    /\ UNCHANGED <<toolVars, flagVars, promptVars, turn, deferred, abandoned>>

\* tool_result: the content update has returned, the status update is sent.
ResumeResultStatus(i) ==
    /\ lines[i].pc = "r_status"
    /\ toolCallStatus' = [toolCallStatus EXCEPT ![lines[i].tool] = "completed"]
    /\ lines' = Put(i, [lines[i] EXCEPT !.out = Append(@, "update:completed"), !.pc = "end"])
    /\ UNCHANGED <<activeToolCallIds, flagVars, promptVars, turn, deferred, abandoned>>

\* The last sessionUpdate of a tool_result or error notification has returned.
ResumeEnd(i) ==
    /\ lines[i].pc = "end"
    /\ lines' = Put(i, [lines[i] EXCEPT !.pc = "done"])
    /\ UNCHANGED <<toolVars, flagVars, promptVars, turn, deferred, abandoned>>

\* handlePermission after its sessionUpdate: decide, record, answer.
ResumeDecide(i) ==
    /\ lines[i].pc = "p_decide"
    /\ LET d == Decide(mode, RiskOf(lines[i].risk)) IN
         /\ toolCallStatus' = [toolCallStatus EXCEPT
                ![lines[i].tool] = IF d = "cancel" THEN "completed" ELSE "in_progress"]
         /\ lines' = Put(i, [lines[i] EXCEPT !.sel = d, !.dm = mode,
                                             !.out = @ \o Response(d), !.pc = "done"])
    /\ UNCHANGED <<activeToolCallIds, flagVars, promptVars, turn, deferred, abandoned>>

\* A suspended handleLine continues.
ResumeLine ==
    /\ UNCHANGED <<procVars, queue, nextLine, sessVars, timerVars, cleanVars, pat>>
    /\ \E i \in DOMAIN lines :
          \/ ResumeMsgTool(i)
          \/ ResumeMsgText(i)
          \/ ResumeResultStatus(i)
          \/ ResumeEnd(i)
          \/ ResumeDecide(i)

\* The child writes a line; readline hands it to queueLine.
ChildLine ==
    /\ childAlive
    /\ Len(queue) < MaxQueue
    /\ nextLine <= MaxLines
    /\ queue' = Append(queue, nextLine)
    /\ nextLine' = IF nextLine = 0 THEN 0 ELSE nextLine + 1
    /\ UNCHANGED <<procVars, flagVars, lines, sessVars, promptVars, toolVars,
                   timerVars, cleanVars, turn, deferred, abandoned, pat>>

(***************************************************************************)
(* The facade: DroidAcpAgent.                                              *)
(***************************************************************************)

\* start: the child is spawned (or the spawn fails), the handlers of its
\* streams and events are attached, the init request is sent, the timer armed.
Start ==
    /\ started = "none"
    /\ mcp.pc = "written"
    /\ process' = "running"
    /\ initResolve' = TRUE
    /\ initTimer' = TRUE
    /\ \E ok \in BOOLEAN :
          /\ childAlive' = ok
          /\ started' = IF ok THEN "pending" ELSE "failing"
    /\ UNCHANGED <<killVars, exitCalls, exitedEarly, flagVars, queue, nextLine, lines,
                   sessVars, promptVars, toolVars, timerVars, cleanVars, turn, deferred,
                   abandoned, pat>>

\* process.on("error"): `if (initReject) initReject(err)`; neither is cleared.
SpawnError ==
    /\ started = "failing"
    /\ initResolve
    /\ started' = "process_error"
    /\ UNCHANGED <<process, childAlive, killVars, exitCalls, initResolve, initTimer,
                   exitedEarly, flagVars, queue, nextLine, lines, sessVars, promptVars,
                   toolVars, timerVars, cleanVars, turn, deferred, abandoned, pat>>

\* The callback of the init timer; the error event of a failed spawn precedes it.
InitTimeout ==
    /\ initTimer
    /\ started # "failing"
    /\ initTimer' = FALSE
    /\ initResolve' = FALSE
    /\ started' = IF initResolve /\ started = "pending" THEN "timeout" ELSE started
    /\ UNCHANGED <<process, childAlive, killVars, exitCalls, exitedEarly, flagVars, queue,
                   nextLine, lines, sessVars, promptVars, toolVars, timerVars, cleanVars,
                   turn, deferred, abandoned, pat>>

\* prompt: the continuation is stored, the message sent, the timer armed.
Prompt ==
    /\ inMap
    /\ ~cancelled
    /\ nPrompts < MaxPrompts
    /\ nPrompts' = nPrompts + 1
    /\ promptResolve' = nPrompts + 1
    /\ timers' = timers \cup {nPrompts + 1}
    /\ lastPrompt' = [err |-> "none", known |-> TRUE, cancelled |-> FALSE, stored |-> TRUE,
                      at |-> nextLine]
    /\ turn' = IF process = "running" THEN "open" ELSE turn
    /\ UNCHANGED <<procVars, flagVars, queue, nextLine, lines, sessVars, resolved,
                   toolVars, cleanVars, deferred, abandoned, pat>>

\* prompt: `throw new Error(...)` for a session that is not in the map, or is
\* in it and cancelled; nothing is stored or sent.
PromptRejected ==
    /\ ~inMap \/ cancelled
    /\ lastPrompt' = [err |-> IF ~inMap THEN "not_found" ELSE "cancelled",
                      known |-> inMap, cancelled |-> cancelled, stored |-> FALSE, at |-> 0]
    /\ UNCHANGED <<procVars, flagVars, queue, nextLine, lines, sessVars, promptVars,
                   toolVars, nPrompts, timers, cleanVars, turn, deferred, abandoned, pat>>

\* Timers of equal delay fire in the order they were armed.
NextTimer == CHOOSE p \in timers : \A q \in timers : p <= q

\* The callback of a prompt's setTimeout.
TimerFire ==
    /\ timers # {}
    /\ timers' = timers \ {NextTimer}
    /\ promptResolve' = 0
    /\ resolved' = IF promptResolve # 0
                   THEN [resolved EXCEPT ![promptResolve] =
                           Settle(@, "end_turn", "timeout", NextTimer,
                                  resolved[NextTimer].stop # "none")]
                   ELSE resolved
    /\ UNCHANGED <<procVars, flagVars, queue, nextLine, lines, sessVars, toolVars,
                   nPrompts, lastPrompt, cleanVars, turn, deferred, abandoned, pat>>

\* An adapter whose stop() signals the child whether or not it holds it.
StopUnguarded ==
    /\ process' = "null"
    /\ stdinEnded' = TRUE
    /\ signals' = signals + 1
    /\ UNCHANGED exitCalls

\* An adapter whose stop() runs the exit handlers itself.
StopNotifies ==
    /\ IF process = "running"
       THEN /\ process' = "null"
            /\ stdinEnded' = TRUE
            /\ signals' = signals + 1
       ELSE UNCHANGED <<process, killVars>>
    /\ exitCalls' = exitCalls + 1

\* stop: `if (process) { process.stdin?.end(); process.kill("SIGTERM"); process = null }`.
Stop ==
    /\ IF process = "running"
       THEN /\ process' = "null"
            /\ stdinEnded' = TRUE
            /\ signals' = signals + 1
       ELSE UNCHANGED <<process, killVars>>
    /\ UNCHANGED exitCalls

\* A cancel that resolves the last prompt's continuation without looking at the slot.
CancelResolvesAgain ==
    /\ nCancels < MaxCleanups
    /\ nCancels' = nCancels + 1
    /\ IF inMap
       THEN /\ cancelled' = TRUE
            /\ promptResolve' = 0
            /\ resolved' = IF nPrompts # 0
                           THEN [resolved EXCEPT
                                   ![nPrompts] = Settle(@, "cancelled", "cancel", 0, FALSE)]
                           ELSE resolved
            /\ Stop
            /\ cleanups' = cleanups + 1
       ELSE UNCHANGED <<cancelled, promptVars, process, killVars, exitCalls, cleanups>>
    /\ UNCHANGED <<childAlive, startVars, flagVars, queue, nextLine, lines, inMap, modeVars,
                   toolVars, timerVars, cfgVars, turn, deferred, abandoned, pat>>

\* cancel up to its first file I/O: mark, resolve, stop the adapter.
Cancel ==
    /\ nCancels < MaxCleanups
    /\ nCancels' = nCancels + 1
    /\ IF inMap
       THEN /\ cancelled' = TRUE
            /\ promptResolve' = 0
            /\ resolved' = IF promptResolve # 0
                           THEN [resolved EXCEPT
                                   ![promptResolve] = Settle(@, "cancelled", "cancel", 0, FALSE)]
                           ELSE resolved
            /\ Stop
            /\ cleanups' = cleanups + 1
       ELSE UNCHANGED <<cancelled, promptVars, process, killVars, exitCalls, cleanups>>
    /\ UNCHANGED <<childAlive, startVars, flagVars, queue, nextLine, lines, inMap, modeVars,
                   toolVars, timerVars, cfgVars, turn, deferred, abandoned, pat>>

\* The child exits: the adapter drops the process and runs the exit handlers,
\* which newSession registers when start() has resolved.
ChildExit ==
    /\ childAlive
    /\ childAlive' = FALSE
    /\ process' = "null"
    /\ exitedEarly' = (exitedEarly \/ (started = "pending" /\ queue = <<>> /\ ChainReady))
    /\ IF started = "resolved"
       THEN exitCalls' = exitCalls + 1 /\ cleanups' = cleanups + 1
       ELSE UNCHANGED <<exitCalls, cleanups>>
    /\ UNCHANGED <<killVars, initResolve, started, initTimer, flagVars, queue, nextLine,
                   lines, sessVars, promptVars, toolVars, timerVars, nCancels, cfgVars,
                   turn, deferred, abandoned, pat>>

\* newSession: `mcpConfig[uniqueKey] = ...` for each server, on the config read.
MergeKeys(config, keys) == config \cup keys

\* A cleanup that deletes every key of the config, not only the session's own.
RemoveKeysAll(config, keys) == {}

\* cleanupSessionMcpConfig: `delete config.mcpServers[key]` for each of the
\* session's keys.
RemoveKeys(config, keys) == config \ keys

\* fs.readFile of the config: its keys, or none in newSession when it is missing.
ReadConfig == IF onDisk THEN file ELSE {}

\* newSession: `await fs.readFile(mcpConfigPath)`.
NewSessionRead ==
    /\ mcp.pc = "none"
    /\ mcp' = [pc |-> "read", snap |-> ReadConfig]
    /\ UNCHANGED <<procVars, flagVars, queue, nextLine, lines, sessVars, promptVars,
                   toolVars, timerVars, cleanups, nCancels, file, onDisk, snaps,
                   lastCleanup, otherVars, turn, deferred, abandoned, pat>>

\* newSession: `await fs.writeFile(mcpConfigPath, ...)` of the merged config.
NewSessionWrite ==
    /\ mcp.pc = "read"
    /\ file' = MergeKeys(mcp.snap, SessionKeys)
    /\ onDisk' = TRUE
    /\ mcp' = [pc |-> "written", snap |-> {}]
    /\ UNCHANGED <<procVars, flagVars, queue, nextLine, lines, sessVars, promptVars,
                   toolVars, timerVars, cleanups, nCancels, snaps, lastCleanup,
                   otherVars, turn, deferred, abandoned, pat>>

\* cleanupSessionMcpConfig: `await fs.readFile(...)`; when the file is missing
\* the error is ignored and the caller goes on to `this.sessions.delete(...)`.
CleanupRead ==
    /\ Len(snaps) < cleanups
    /\ IF onDisk
       THEN snaps' = Append(snaps, file) /\ UNCHANGED <<cleanups, inMap>>
       ELSE cleanups' = cleanups - 1 /\ inMap' = FALSE /\ UNCHANGED snaps
    /\ UNCHANGED <<procVars, flagVars, queue, nextLine, lines, modeVars, cancelled,
                   promptVars, toolVars, timerVars, nCancels, file, onDisk, mcp,
                   lastCleanup, otherVars, turn, deferred, abandoned, pat>>

\* cleanupSessionMcpConfig from the config read to its return (the config is
\* written without the session's keys, or the file removed when none is left),
\* and the caller's `this.sessions.delete(...)`.
CleanupDone ==
    /\ \E i \in DOMAIN snaps :
          LET left == RemoveKeys(snaps[i], SessionKeys) IN
          /\ file' = left
          /\ onDisk' = (left # {})
          /\ lastCleanup' = [done |-> TRUE, from |-> snaps[i], left |-> left,
                             unlinked |-> (left = {})]
          /\ snaps' = SubSeq(snaps, 1, i - 1) \o SubSeq(snaps, i + 1, Len(snaps))
    /\ cleanups' = cleanups - 1
    /\ inMap' = FALSE
    /\ UNCHANGED <<procVars, flagVars, queue, nextLine, lines, modeVars, cancelled,
                   promptVars, toolVars, timerVars, nCancels, mcp, otherVars, turn,
                   deferred, abandoned, pat>>

\* newSession of the other session: `await fs.readFile(mcpConfigPath)`.
OtherNewSessionRead ==
    /\ other.pc = "none"
    /\ other' = [other EXCEPT !.pc = "read", !.snap = ReadConfig]
    /\ UNCHANGED <<procVars, flagVars, queue, nextLine, lines, sessVars, promptVars,
                   toolVars, timerVars, cleanups, nCancels, file, onDisk, mcp, snaps,
                   lastCleanup, others, turn, deferred, abandoned, pat>>

\* newSession of the other session from its write of the merged config to its
\* `this.sessions.set(...)`.
OtherNewSession ==
    /\ other.pc = "read"
    /\ file' = MergeKeys(other.snap, OtherKeys)
    /\ onDisk' = TRUE
    /\ others' = OtherIds
    /\ other' = OtherAt("live")
    /\ UNCHANGED <<procVars, flagVars, queue, nextLine, lines, sessVars, promptVars,
                   toolVars, timerVars, cleanups, nCancels, mcp, snaps, lastCleanup,
                   turn, deferred, abandoned, pat>>

\* prompt on the other session.
OtherPrompt ==
    /\ others # {}
    /\ ~other.cancelled
    /\ ~other.pending
    /\ other' = [other EXCEPT !.pending = TRUE]
    /\ UNCHANGED <<procVars, flagVars, queue, nextLine, lines, sessVars, promptVars,
                   toolVars, timerVars, cleanups, nCancels, file, onDisk, mcp, snaps,
                   lastCleanup, others, turn, deferred, abandoned, pat>>

\* setSessionMode on the other session.
OtherSetSessionMode ==
    /\ others # {}
    /\ \E m \in {"medium", "high"} : m # other.mode /\ other' = [other EXCEPT !.mode = m]
    /\ UNCHANGED <<procVars, flagVars, queue, nextLine, lines, sessVars, promptVars,
                   toolVars, timerVars, cleanups, nCancels, file, onDisk, mcp, snaps,
                   lastCleanup, others, turn, deferred, abandoned, pat>>

\* cancel of the other session up to the first file I/O.
OtherCancel ==
    /\ other.pc = "live"
    /\ other' = [other EXCEPT !.pc = "cleaning", !.cancelled = TRUE, !.pending = FALSE]
    /\ UNCHANGED <<procVars, flagVars, queue, nextLine, lines, sessVars, promptVars,
                   toolVars, timerVars, cleanups, nCancels, file, onDisk, mcp, snaps,
                   lastCleanup, others, turn, deferred, abandoned, pat>>

\* The cleanup of the other session: `await fs.readFile(...)`.
OtherCleanupRead ==
    /\ other.pc = "cleaning"
    /\ IF onDisk
       THEN other' = [other EXCEPT !.pc = "cleanread", !.snap = file] /\ UNCHANGED others
       ELSE other' = [other EXCEPT !.pc = "gone"] /\ others' = {}
    /\ UNCHANGED <<procVars, flagVars, queue, nextLine, lines, sessVars, promptVars,
                   toolVars, timerVars, cleanups, nCancels, file, onDisk, mcp, snaps,
                   lastCleanup, turn, deferred, abandoned, pat>>

\* The cleanup of the other session from the config read to its
\* `this.sessions.delete(...)`.
OtherCleanupDone ==
    /\ other.pc = "cleanread"
    /\ LET left == RemoveKeys(other.snap, OtherKeys) IN
          /\ file' = left
          /\ onDisk' = (left # {})
    /\ others' = {}
    /\ other' = [other EXCEPT !.pc = "gone", !.snap = {}]
    /\ UNCHANGED <<procVars, flagVars, queue, nextLine, lines, sessVars, promptVars,
                   toolVars, timerVars, cleanups, nCancels, mcp, snaps, lastCleanup,
                   turn, deferred, abandoned, pat>>

\* A mapping that hands the mode id itself to the adapter.
ModeIdAsLevel(m) == IF m \in {"low", "medium", "high"} THEN m ELSE "none"

\* A setSessionMode that stores the mode in every session of the map.
SetSessionModeOfAll ==
    /\ \E m \in ModeIds :
          /\ mode' = IF inMap THEN m ELSE mode
          /\ other' = IF others # {} THEN [other EXCEPT !.mode = m] ELSE other
          /\ lastSet' = [op |-> "mode", known |-> inMap, arg |-> m,
                         level |-> "none", wrote |-> "none"]
    /\ UNCHANGED <<procVars, flagVars, queue, nextLine, lines, inMap, model, facadeVars,
                   cancelled, promptVars, toolVars, timerVars, cleanups, nCancels, file, onDisk,
                   mcp, snaps, lastCleanup, others, turn, deferred, abandoned, pat>>

\* ACP_TO_DROID_MODE[modeId]; "none": undefined.
ACP_TO_DROID_MODE(m) ==
    CASE m = "low" -> "suggest"
      [] m = "medium" -> "normal"
      [] m = "high" -> "full"
      [] OTHER -> "none"

\* The adapter's setMode(level): send writes the request while the process is held.
SetMode(level) == IF level # "none" /\ process = "running" THEN level ELSE "none"

\* setSessionMode: the mode id is stored as given, its level handed to setMode.
SetSessionMode ==
    /\ \E m \in ModeIds :
          IF inMap
          THEN /\ mode' = m
               /\ lastSet' = [op |-> "mode", known |-> TRUE, arg |-> m,
                              level |-> ACP_TO_DROID_MODE(m),
                              wrote |-> SetMode(ACP_TO_DROID_MODE(m))]
          ELSE /\ lastSet' = [op |-> "mode", known |-> FALSE, arg |-> m,
                              level |-> "none", wrote |-> "none"]
               /\ UNCHANGED mode
    /\ UNCHANGED <<procVars, flagVars, queue, nextLine, lines, inMap, model, facadeVars,
                   cancelled, promptVars, toolVars, timerVars, cleanVars, turn, deferred,
                   abandoned, pat>>

\* setSessionModel: the model id is stored.
SetSessionModel ==
    /\ \E m \in ModelIds :
          IF inMap
          THEN /\ model' = m
               /\ lastSet' = [op |-> "model", known |-> TRUE, arg |-> m,
                              level |-> "none", wrote |-> "none"]
          ELSE /\ lastSet' = [op |-> "model", known |-> FALSE, arg |-> m,
                              level |-> "none", wrote |-> "none"]
               /\ UNCHANGED model
    /\ UNCHANGED <<procVars, flagVars, queue, nextLine, lines, inMap, mode, facadeVars,
                   cancelled, promptVars, toolVars, timerVars, cleanVars, turn, deferred,
                   abandoned, pat>>

\* An authenticate that takes any value of the variable, the empty string too.
AuthAcceptsEmpty(method, key) ==
    IF method = "factory-api-key"
    THEN (IF key # "absent" THEN "ok" ELSE "error_not_set")
    ELSE "error_unknown"

\* authenticate: `if (!process.env.FACTORY_API_KEY) throw`, for the one method id.
AuthResult(method, key) ==
    IF method = "factory-api-key"
    THEN (IF key = "key" THEN "ok" ELSE "error_not_set")
    ELSE "error_unknown"

Authenticate ==
    /\ \E m \in AuthMethods : lastAuth' = [method |-> m, result |-> AuthResult(m, env)]
    /\ UNCHANGED <<procVars, flagVars, queue, nextLine, lines, inMap, mode, model, lastSet,
                   env, pushable, cancelled, promptVars, toolVars, timerVars, cleanVars,
                   turn, deferred, abandoned, pat>>

(***************************************************************************)
(* Pushable (utils).  A value is the number of its push; the result done   *)
(* is 0.                                                                   *)
(***************************************************************************)

restVars ==
    <<procVars, flagVars, queue, nextLine, lines, inMap, mode, model, lastSet, authVars,
      cancelled, promptVars, toolVars, timerVars, cleanVars, turn, deferred, abandoned,
      pat>>

\* The generator returns: this next() and every later one is answered done.
GenFinish(p) ==
    [p EXCEPT !.pc = "finished", !.nexts = 0,
              !.out = @ \o [i \in 1..p.nexts |-> 0]]

\* One turn of the generator's loop for the oldest next() not yet answered.
GenLoop(p) ==
    IF p.queue # <<>>
    THEN [p EXCEPT !.out = Append(@, Head(p.queue)), !.queue = Tail(@), !.nexts = @ - 1]
    ELSE IF p.done THEN GenFinish(p)
    ELSE [p EXCEPT !.pc = "waiting"]

\* A push that puts the value in front of the queue.
PushFirst(p) ==
    IF p.pc = "waiting"
    THEN [p EXCEPT !.pc = "resumed", !.val = p.n + 1, !.n = @ + 1]
    ELSE [p EXCEPT !.queue = <<p.n + 1>> \o @, !.n = @ + 1]

\* push(value): handed to the waiting resolver, or queued.
Pushed(p) ==
    IF p.pc = "waiting"
    THEN [p EXCEPT !.pc = "resumed", !.val = p.n + 1, !.n = @ + 1]
    ELSE [p EXCEPT !.queue = Append(@, p.n + 1), !.n = @ + 1]

PushablePush ==
    /\ pushable.n < MaxPush
    /\ pushable' = Pushed(pushable)
    /\ UNCHANGED restVars

\* iterator.next(): a suspended generator runs at once, a running one takes
\* the call when it has answered the calls before it.
PushableNext ==
    /\ pushable.calls < MaxNext
    /\ LET p == [pushable EXCEPT !.calls = @ + 1, !.nexts = @ + 1] IN
         pushable' = IF p.pc = "finished" THEN GenFinish(p)
                     ELSE IF p.pc = "idle" /\ pushable.nexts = 0 THEN GenLoop(p)
                     ELSE p
    /\ UNCHANGED restVars

\* The generator goes on after its await: `if (value.done) break; yield value.value`.
PushableResume ==
    /\ pushable.pc = "resumed"
    /\ pushable' = IF pushable.val = 0 THEN GenFinish(pushable)
                   ELSE [pushable EXCEPT !.pc = "idle", !.val = 0, !.nexts = @ - 1,
                                         !.out = Append(@, pushable.val)]
    /\ UNCHANGED restVars

\* The generator goes on after a yield, for a next() that was called meanwhile.
PushableContinue ==
    /\ pushable.pc = "idle"
    /\ pushable.nexts > 0
    /\ pushable' = GenLoop(pushable)
    /\ UNCHANGED restVars

\* close(): done is set, the waiting resolver gets {done: true}.
PushableClose ==
    /\ ~pushable.done
    /\ LET p == [pushable EXCEPT !.done = TRUE, !.nAtClose = pushable.n] IN
         pushable' = IF p.pc = "waiting" THEN [p EXCEPT !.pc = "resumed", !.val = 0] ELSE p
    /\ UNCHANGED restVars

(***************************************************************************)
(* Specifications.                                                         *)
(***************************************************************************)

\* The lines that reach the adapter's flags and the complete notification.
TurnContents ==
    {c \in LineContents :
        c.kind \in {"malformed", "streaming", "idle", "error", "message"}}

\* The lines that end a turn.
IdleContents ==
    {c \in LineContents :
        \/ c.kind \in {"streaming", "idle"}
        \/ c.kind = "message" /\ c.role = "assistant" /\ c.text /\ c.tool = NoTool}

\* The lines that reach the tool-call maps.
ToolContents ==
    {c \in LineContents :
        \/ c.kind \in {"tool_result", "request", "request_other"}
        \/ c.kind = "message" /\ c.tool # NoTool}

StartAnyLine == StartLine(LineContents)
StartTurnLine == StartLine(TurnContents)
StartIdleLine == StartLine(IdleContents)
StartToolLine == StartLine(ToolContents)

\* Every line content, the lines numbered; no call of the facade.
NextChain ==
    ChildLine \/ StartAnyLine \/ ResumeLine \/ ChildExit \/ CleanupRead \/ CleanupDone

SpecChain == InitNumbered /\ [][NextChain]_vars

\* The reordering of idle and message, with the prompts that open the turns.
NextTurn == ChildLine \/ StartTurnLine \/ ResumeLine \/ Prompt \/ TimerFire

SpecTurn == Init /\ [][NextTurn]_vars

\* The tool calls and the permission policy.
NextTools ==
    \/ ChildLine
    \/ StartToolLine
    \/ ResumeLine
    \/ SetSessionMode
    \/ Cancel
    \/ CleanupRead
    \/ CleanupDone

SpecTools == Init /\ [][NextTools]_vars

\* The prompt slot: prompt, complete, cancel, timeout, exit.
NextPrompt ==
    \/ ChildLine
    \/ StartIdleLine
    \/ ResumeLine
    \/ Prompt
    \/ TimerFire
    \/ Cancel
    \/ ChildExit
    \/ CleanupRead
    \/ CleanupDone

SpecPrompt == Init /\ [][NextPrompt]_vars

\* The same with the timers of setTimeout firing: an armed timer fires after
\* its delay whatever else happens.
SpecPromptFair == SpecPrompt /\ WF_vars(TimerFire)

\* The lines that complete a turn at once.
CompleteContents == {c \in LineContents : c.kind = "idle"}

StartCompleteLine == StartLine(CompleteContents)

\* The life of the session: prompt, cancel, exit, cleanup, next to another session.
NextLife ==
    \/ ChildLine
    \/ StartCompleteLine
    \/ Prompt
    \/ PromptRejected
    \/ TimerFire
    \/ Cancel
    \/ ChildExit
    \/ CleanupRead
    \/ CleanupDone
    \/ OtherCancel
    \/ OtherCleanupRead
    \/ OtherCleanupDone

SpecLife == Init /\ [][NextLife]_vars

\* The same calls on the one session, the other session left alone.
NextStop ==
    \/ ChildLine
    \/ StartCompleteLine
    \/ Prompt
    \/ PromptRejected
    \/ TimerFire
    \/ Cancel
    \/ ChildExit
    \/ CleanupRead
    \/ CleanupDone

SpecStop == Init /\ [][NextStop]_vars

\* The lines that reach the adapter before the facade has registered its
\* notification handler, and the requests.
StartContents ==
    {c \in LineContents :
        \/ c.kind \in {"malformed", "streaming", "idle", "request_other"}
        \/ c.kind = "request" /\ c.risk = "none"}

StartStartLine == StartLine(StartContents)

\* start(), from the spawn to the registration of the session, and the
\* requests of the child before and after it.
NextStart ==
    \/ Start
    \/ SpawnError
    \/ InitTimeout
    \/ ChildLine
    \/ StartInitLine
    \/ StartStartLine
    \/ ResumeLine
    \/ ChildExit
    \/ CleanupRead
    \/ CleanupDone

SpecStart == InitStart /\ [][NextStart]_vars

(***************************************************************************)
(* Properties.                                                             *)
(***************************************************************************)

\* In out, every b comes after some a.
Before(out, a, b) ==
    \A j \in DOMAIN out : out[j] = b => \E k \in 1..(j - 1) : out[k] = a

Has(out, a) == \E j \in DOMAIN out : out[j] = a

\* An assistant message with text that the child wrote right after the lines
\* streaming, idle.
AfterStreamingIdle(r) ==
    r.kind = "message" /\ r.role = "assistant" /\ r.text /\ r.pat \in {2, 3}

\* C1: when the child writes streaming_assistant_message, idle and then an
\* assistant message with text, no complete is emitted on the idle line, and on
\* the message line complete (and the end_turn it resolves the prompt with)
\* comes after the message chunk was handed to the client, and does come.
C1_CompleteAfterChunk ==
    \A i \in DOMAIN lines :
        AfterStreamingIdle(lines[i]) =>
            /\ lines[i].pat = 2
            /\ Before(lines[i].out, "chunk", "complete")
            /\ Before(lines[i].out, "chunk", "resolve")
            /\ lines[i].pc = "done" => Has(lines[i].out, "complete")

C1_Witness ==
    \E i \in DOMAIN lines :
        /\ AfterStreamingIdle(lines[i])
        /\ lines[i].pc = "done"
        /\ lines[i].out = <<"message", "chunk", "complete", "resolve">>

C3_IdleCompletesAtOnce ==
    \A i \in DOMAIN lines :
        (lines[i].kind = "idle" /\ ~lines[i].s0) =>
            (lines[i].pc = "done" /\ Has(lines[i].out, "complete"))

C3_Witness ==
    \E i \in DOMAIN lines :
        /\ lines[i].kind = "idle"
        /\ ~lines[i].s0
        /\ lines[i].out = <<"working_state", "complete", "resolve">>

\* C4: at most one line is being handled, the lines are started in their order
\* of arrival, and the line that waits first is the successor of the line that
\* was started last: no line starts before its predecessor has finished.
C4_OneLineAtATime ==
    /\ Cardinality({i \in DOMAIN lines : Running(lines[i])}) <= 1
    /\ Len(lines) <= 1
    /\ \A j \in DOMAIN queue : queue[j] = Head(queue) + j - 1
    /\ LET next == IF queue # <<>> THEN Head(queue) ELSE nextLine
       IN  IF lines = <<>> THEN next = 1 ELSE lines[1].n + 1 = next

C4_Witness ==
    /\ Len(queue) = 2
    /\ \E i \in DOMAIN lines : Running(lines[i]) /\ lines[i].n = 1

\* C5: a tool call's status never goes back: completed stays completed, and
\* in_progress does not become pending.
C5_StatusNeverRegresses ==
    [][\A t \in ToolIds :
          /\ toolCallStatus[t] = "completed" => toolCallStatus'[t] = "completed"
          /\ toolCallStatus[t] = "in_progress" => toolCallStatus'[t] # "pending"]_vars

\* The table of section 4.4; a risk level that is not declared counts as medium.
PermissionTable(m, risk) ==
    CASE m = "high" -> "proceed_always"
      [] m = "medium" /\ risk \in {"low", "medium", "none"} -> "proceed_once"
      [] m = "medium" /\ risk = "high" -> "cancel"
      [] m = "low" -> "cancel"

\* C6: the answer to a permission request is the table's entry for the
\* session's mode when the request is decided and the declared risk level,
\* medium when the request declares none.
C6_DecisionIsTable ==
    \A i \in DOMAIN lines :
        (/\ lines[i].kind = "request"
         /\ lines[i].pc = "done"
         /\ lines[i].dm \in {"low", "medium", "high"}) =>
            lines[i].sel = PermissionTable(lines[i].dm, lines[i].risk)

\* The table holds for the requests that name a tool use.
ToolUseDecisionIsTable ==
    \A i \in DOMAIN lines :
        (/\ lines[i].kind = "request"
         /\ lines[i].tool # NoTool
         /\ lines[i].pc = "done"
         /\ lines[i].dm \in {"low", "medium", "high"}) =>
            lines[i].sel = PermissionTable(lines[i].dm, lines[i].risk)

\* C7: while a prompt is pending no other prompt is accepted, and the slot
\* keeps the pending prompt's continuation until it is resolved.
C7_PendingPromptKept ==
    [][promptResolve # 0 =>
          (nPrompts' = nPrompts /\ promptResolve' \in {0, promptResolve})]_vars

\* C8: every accepted prompt is either still the one in the slot, not resolved
\* yet, or was resolved exactly once and is no longer in the slot.
C8_ResolvedExactlyOnce ==
    \A p \in 1..nPrompts :
        \/ resolved[p].count = 0 /\ promptResolve = p
        \/ resolved[p].count = 1 /\ promptResolve # p

\* C9: no prompt is resolved by the timer of a prompt that had been resolved
\* before the timer fired.
C9_NoStaleTimer == \A p \in PromptIds : ~resolved[p].stale

\* C10: complete and the timeout resolve with end_turn, cancel resolves with
\* cancelled, and a prompt whose timer has fired is resolved.
C10_TimerResolves ==
    \A p \in 1..nPrompts :
        /\ resolved[p].by \in {"complete", "timeout"} => resolved[p].stop = "end_turn"
        /\ resolved[p].by = "cancel" => resolved[p].stop = "cancelled"
        /\ p \notin timers => resolved[p].stop # "none"

\* The config file: two sessions of one working directory are created and
\* cleaned up, by cancel or by the exit of the child.
NextCfg ==
    \/ NewSessionRead
    \/ NewSessionWrite
    \/ Start
    \/ ChildLine
    \/ StartInitLine
    \/ Cancel
    \/ ChildExit
    \/ CleanupRead
    \/ CleanupDone
    \/ OtherNewSessionRead
    \/ OtherNewSession
    \/ OtherCancel
    \/ OtherCleanupRead
    \/ OtherCleanupDone

SpecCfg == InitCfg /\ [][NextCfg]_vars

\* The lines of a child that answers the init request, and the prompt with one
\* assistant message and idle.
HelloScript ==
    <<Content("init_response", "none", FALSE, NoTool, "none"),
      Content("message", "assistant", TRUE, NoTool, "none"),
      Content("idle", "none", FALSE, NoTool, "none")>>

\* The child answers what it was sent: the init request, then the prompt.
HelloChildLine ==
    /\ \/ nextLine = 1 /\ started = "pending"
       \/ nextLine \in 2..3 /\ nPrompts = 1
    /\ ChildLine

HelloInitLine ==
    /\ queue # <<>>
    /\ Head(queue) = 1
    /\ StartInitLine

HelloLine ==
    /\ queue # <<>>
    /\ Head(queue) \in 2..3
    /\ StartLine({HelloScript[Head(queue)]})

HelloPrompt == nPrompts = 0 /\ Prompt

\* newSession and one prompt, end to end, while another session is created.
NextHello ==
    \/ NewSessionRead
    \/ NewSessionWrite
    \/ OtherNewSessionRead
    \/ OtherNewSession
    \/ Start
    \/ SpawnError
    \/ InitTimeout
    \/ HelloChildLine
    \/ HelloInitLine
    \/ HelloPrompt
    \/ HelloLine
    \/ ResumeLine
    \/ TimerFire

SpecHello == InitHello /\ [][NextHello]_vars

\* authenticate, and the session's mode and model, set while the session is
\* there and after it has been cancelled or its child has exited.
NextMode ==
    \/ Authenticate
    \/ SetSessionMode
    \/ SetSessionModel
    \/ Cancel
    \/ ChildExit
    \/ CleanupRead
    \/ CleanupDone

SpecMode == InitAuth /\ [][NextMode]_vars

\* The permission requests for a tool use of high risk.
PairContents ==
    {c \in LineContents : c.kind = "request" /\ c.tool # NoTool /\ c.risk = "high"}

StartPairLine == StartLine(PairContents)

\* Two sessions side by side: the calls of the facade on each, the lines and
\* the exit of the child of one.  The cleanup of the other session works on
\* the shared file only and is left to SpecLife and SpecCfg.
NextPair ==
    \/ ChildLine
    \/ StartPairLine
    \/ ResumeLine
    \/ HelloPrompt
    \/ SetSessionMode
    \/ Cancel
    \/ ChildExit
    \/ CleanupRead
    \/ CleanupDone
    \/ OtherPrompt
    \/ OtherSetSessionMode
    \/ OtherCancel

SpecPair == Init /\ [][NextPair]_vars

\* The turns of one session with the lines numbered in the order the child
\* writes them, so that a line written before a prompt call can be told from
\* one written after it.
NextEarly == ChildLine \/ StartIdleLine \/ ResumeLine \/ Prompt \/ TimerFire

SpecEarly == InitNumbered /\ [][NextEarly]_vars

\* A Pushable, its producer and the consumer of its iterator.
NextPush ==
    \/ PushablePush
    \/ PushableNext
    \/ PushableResume
    \/ PushableContinue
    \/ PushableClose

SpecPush == Init /\ [][NextPush]_vars

\* C11: a prompt call on a session that was cancelled fails with the cancelled
\* error, at any time after the cancel; a prompt call on a session that is not
\* known, and was not cancelled, fails with the not-found error; a prompt call
\* that fails stores no continuation.
C11_PromptErrors ==
    /\ lastPrompt.cancelled => lastPrompt.err = "cancelled"
    /\ (~lastPrompt.known /\ ~lastPrompt.cancelled) => lastPrompt.err = "not_found"
    /\ lastPrompt.err \in {"cancelled", "not_found"} => ~lastPrompt.stored

\* The errors of prompt as the code raises them.
PromptErrorsByMap ==
    /\ ~lastPrompt.known => lastPrompt.err = "not_found"
    /\ (lastPrompt.known /\ lastPrompt.cancelled) => lastPrompt.err = "cancelled"

\* C12: no prompt is resolved twice, whatever the order of cancel calls and
\* timers, and a cancel call that follows another one changes nothing of the
\* session, the adapter or the other sessions.
C12_CancelIdempotent ==
    /\ [](\A p \in PromptIds : resolved[p].count <= 1)
    /\ [][(nCancels >= 1 /\ nCancels' = nCancels + 1) =>
            UNCHANGED <<sessVars, promptVars, process, childAlive, killVars, exitCalls,
                        cfgVars, timerVars, toolVars>>]_vars

C12_Witness ==
    /\ nCancels = 2
    /\ cleanups = 2
    /\ \E p \in PromptIds :
          /\ resolved[p].by = "cancel"
          /\ resolved[p].count = 1
          /\ p \notin timers

\* What cancel leaves behind once every cleanup has returned: the session is
\* marked and out of the map, the slot is empty, and the child was signalled
\* unless it had exited by itself.
CancelReleases ==
    (cancelled /\ cleanups = 0) =>
        /\ ~inMap
        /\ promptResolve = 0
        /\ \/ signals = 1 /\ stdinEnded
           \/ signals = 0 /\ ~childAlive

\* C13: when cancel has completed on a session that was in the map, that holds,
\* the session's keys are out of the file, and no prompt of the session is left
\* pending: each was resolved, the ones pending at the cancel with cancelled.
C13_CancelCompletes ==
    (cancelled /\ cleanups = 0) =>
        /\ CancelReleases
        /\ file \cap SessionKeys = {}
        /\ \A p \in 1..nPrompts : resolved[p].count >= 1

\* C14: start() fails with the process error as soon as the child exits
\* without having answered, or the spawn fails, and with the timeout error
\* only when the child is still there and has not answered by the deadline.
C14_StartFailsFast ==
    /\ exitedEarly => started = "process_error"
    /\ started = "timeout" => ~exitedEarly

\* What start() does: a failed spawn rejects it with the process error, an
\* error response with that error, and the timer rejects it while it is pending.
StartOutcomes ==
    /\ started = "process_error" => (~childAlive /\ ~exitedEarly /\ exitCalls = 0)
    /\ started \in {"resolved", "init_error", "timeout"} => ~initResolve
    /\ started \in {"pending", "failing"} => (initTimer /\ initResolve)
    /\ inMap => started = "resolved"

\* C15: an error line clears both flags and hands the error chunk to the
\* client, it emits no complete and resolves no prompt, and no assistant
\* message that follows it completes the idle line deferred before it.
C15_ErrorAbandonsIdle ==
    \A i \in DOMAIN lines :
        /\ lines[i].kind = "error" =>
              /\ ~isStreamingAssistant
              /\ ~pendingIdle
              /\ lines[i].out = <<"error", "chunk:error">>
        /\ (lines[i].kind = "message" /\ lines[i].a0) =>
              (~Has(lines[i].out, "complete") /\ ~Has(lines[i].out, "resolve"))

C15_Witness ==
    /\ promptResolve # 0
    /\ \E i \in DOMAIN lines :
          /\ lines[i].kind = "message"
          /\ lines[i].role = "assistant"
          /\ lines[i].a0
          /\ lines[i].pc = "done"
          /\ lines[i].out = <<"message", "chunk">>

\* C16: the step that handles a malformed line changes neither the flags nor
\* the session, the prompts, the tool calls or the process, emits nothing, and
\* ends the line, so that the next one can start.
C16_MalformedDropped ==
    [][(/\ Len(queue') < Len(queue)
        /\ lines' # <<>>
        /\ lines'[Len(lines')].kind = "malformed") =>
           /\ UNCHANGED <<flagVars, sessVars, promptVars, toolVars, timerVars, procVars>>
           /\ lines'[Len(lines')].out = <<>>
           /\ lines'[Len(lines')].pc = "done"]_vars

C16_Witness ==
    /\ isStreamingAssistant
    /\ pendingIdle
    /\ promptResolve # 0
    /\ queue # <<>>
    /\ \E i \in DOMAIN lines : lines[i].kind = "malformed" /\ lines[i].pc = "done"

Responses ==
    {"response:" \o x : x \in {"proceed_once", "proceed_always", "cancel", "error"}}

\* The responses written for a line, and the one its handling calls for.
Answers(r) == {j \in DOMAIN r.out : r.out[j] \in Responses}

Answer(r) == IF r.sel = "fallback" THEN "response:proceed_once" ELSE "response:" \o r.sel

IsRequest(r) == r.kind \in {"request", "request_other"} /\ r.pc = "done"

\* C17 as claimed: every request handled with a handler registered, and every
\* permission request handled with none, gets exactly one response.
C17_ExactlyOneResponse ==
    \A i \in DOMAIN lines :
        (IsRequest(lines[i]) /\ lines[i].sel # "none") =>
            Cardinality(Answers(lines[i])) = 1

\* C17 as amended: a request gets at most one response, which carries the
\* handler's result, the error of a handler that throws, or proceed_once when
\* no handler is registered; it gets that response when the adapter still holds
\* the child process, and none when no handler is registered and the request is
\* not a permission request.  The line ends in every case.
C17_AnsweredWhileHeld ==
    \A i \in DOMAIN lines :
        /\ lines[i].kind = "request_other" => lines[i].pc = "done"
        /\ IsRequest(lines[i]) =>
              /\ Cardinality(Answers(lines[i])) <= 1
              /\ \A j \in Answers(lines[i]) : lines[i].out[j] = Answer(lines[i])
              /\ lines[i].sel = "none" => Answers(lines[i]) = {}
              /\ (lines[i].sel # "none" /\ process = "running") => Answers(lines[i]) # {}

C17_Witness ==
    /\ queue # <<>>
    /\ Registered
    /\ \E i \in DOMAIN lines :
          /\ lines[i].kind = "request_other"
          /\ lines[i].pc = "done"
          /\ lines[i].out = <<"response:error">>

\* What the exit of the child leaves behind once the exit handler has run to
\* its end: the session is out of the map, and a prompt on an id that is not
\* in the map fails with not-found.
ExitRemovesSession ==
    /\ (~childAlive /\ cleanups = 0) => ~inMap
    /\ ~lastPrompt.known => lastPrompt.err = "not_found"

\* C18: that holds, and when the child has exited and the exit handler has run
\* to its end the session's keys are out of the file, while the keys of the
\* other session stay in the file as long as that session is not cleaned up.
C18_ExitCleansUp ==
    /\ ExitRemovesSession
    /\ (~childAlive /\ cleanups = 0) => file \cap SessionKeys = {}
    /\ (~childAlive /\ other.pc = "live") => OtherKeys \subseteq file

C20_StopIdempotent ==
    [][/\ signals' # signals =>
            /\ process = "running" /\ childAlive /\ signals = 0
            /\ signals' = 1 /\ stdinEnded' /\ process' = "null"
       /\ stdinEnded' # stdinEnded => signals' # signals
       /\ (nCancels' # nCancels /\ inMap /\ process = "running") => signals' = 1]_vars

C20_Witness ==
    /\ cancelled
    /\ ~childAlive
    /\ exitCalls = 1
    /\ signals = 0
    /\ ~stdinEnded

\* C21: the config file holds the keys of every session that is in the map,
\* whatever the order in which the sessions were created and cleaned up.
C21_ConfigKeepsKeys ==
    /\ inMap => SessionKeys \subseteq file
    /\ others = OtherIds => OtherKeys \subseteq file

\* The keys that were in the file before any session stay in it.
UserKeysKept == [][UserKeys \subseteq file => UserKeys \subseteq file']_vars

\* C22: a cleanup writes the config it has read without the session's keys and
\* with every other key, and removes the file when no key is left.
C22_CleanupRemovesOwnKeys ==
    [][lastCleanup' # lastCleanup =>
         /\ lastCleanup'.left = lastCleanup'.from \ SessionKeys
         /\ file' = lastCleanup'.left
         /\ onDisk' = (lastCleanup'.left # {})
         /\ lastCleanup'.unlinked = (lastCleanup'.left = {})]_vars

C22_Witness ==
    /\ lastCleanup.done
    /\ lastCleanup.from = SessionKeys \cup OtherKeys
    /\ file = OtherKeys
    /\ onDisk
    /\ other.pc = "live"

\* C23: newSession returns when the child has answered the init request; the
\* assistant message delivers one chunk and resolves nothing, the idle line that
\* follows it delivers none and emits complete, and when it has been handled the
\* prompt is resolved, once, with end_turn: by that complete, unless the
\* prompt's timer fired before.
C23_HelloEndTurn ==
    /\ inMap => started = "resolved"
    /\ resolved[1].count <= 1
    /\ resolved[1].count = 1 => resolved[1].stop = "end_turn"
    /\ resolved[1].by = "complete" => \E i \in DOMAIN lines : lines[i].n = 3
    /\ \A i \in DOMAIN lines :
          /\ lines[i].n = 1 => lines[i].out = <<>>
          /\ (lines[i].n = 2 /\ lines[i].pc = "done") =>
                /\ lines[i].out = <<"message", "chunk">>
                /\ resolved[1].by # "complete"
          /\ lines[i].n = 3 =>
                /\ lines[i].pc = "done"
                /\ resolved[1].count = 1
                /\ lines[i].out = IF resolved[1].by = "complete"
                                  THEN <<"working_state", "complete", "resolve">>
                                  ELSE <<"working_state", "complete">>

C23_Witness ==
    /\ resolved[1].by = "complete"
    /\ resolved[1].stop = "end_turn"
    /\ timers = {1}
    /\ \E i \in DOMAIN lines :
          lines[i].n = 3 /\ lines[i].out = <<"working_state", "complete", "resolve">>

\* The mode table of the specification.
ModeTable == [low |-> "suggest", medium |-> "normal", high |-> "full"]

ownVars ==
    <<procVars, flagVars, queue, lines, sessVars, promptVars, toolVars, timerVars,
      cleanups, nCancels>>

\* The record of the other session.
otherRecord == <<others, other.mode, other.cancelled, other.pending>>

C26_Authenticate ==
    /\ [](lastAuth.method # "none" =>
            /\ lastAuth.result = "ok" <=>
                  (lastAuth.method = "factory-api-key" /\ env = "key")
            /\ (lastAuth.method = "factory-api-key" /\ env # "key") =>
                  lastAuth.result = "error_not_set"
            /\ lastAuth.method # "factory-api-key" => lastAuth.result = "error_unknown")
    /\ [][lastAuth' # lastAuth =>
            UNCHANGED <<procVars, flagVars, queue, nextLine, lines, inMap, mode, model,
                        lastSet, env, cancelled, promptVars, toolVars, timerVars,
                        cleanVars, turn, deferred, abandoned, pat>>]_vars

C26_Witness ==
    /\ env = "absent"
    /\ lastAuth.method = "factory-api-key"
    /\ lastAuth.result = "error_not_set"
    /\ mode = "high"
    /\ inMap

\* The values the iterator has yielded, in order.
Yielded == SelectSeq(pushable.out, LAMBDA v : v # 0)

\* The value handed to the waiting resolver and not yet yielded.
InHand == IF pushable.pc = "resumed" /\ pushable.val # 0 THEN <<pushable.val>> ELSE <<>>

\* C27: the values yielded, the value in hand and the values queued are the
\* values pushed, each once and in the order of the pushes; a next() that
\* waits is answered with the next value pushed; the iterator reports done only
\* after close(), when it has yielded every value pushed before the close,
\* and reports nothing but done after that.
C27_PushableFifo ==
    /\ Yielded \o InHand \o pushable.queue = [i \in 1..pushable.n |-> i]
    /\ pushable.pc = "waiting" => (pushable.queue = <<>> /\ pushable.nexts >= 1)
    /\ Len(pushable.out) + pushable.nexts = pushable.calls
    /\ \A i \in DOMAIN pushable.out :
          pushable.out[i] = 0 =>
             /\ pushable.done
             /\ Len(SelectSeq(SubSeq(pushable.out, 1, i), LAMBDA v : v # 0))
                   >= pushable.nAtClose
             /\ \A j \in DOMAIN pushable.out : j > i => pushable.out[j] = 0

C27_Witness ==
    /\ pushable.out = <<1, 2, 3, 0>>
    /\ pushable.nAtClose = 3

\* The permission requests that name a tool use and go to handlePermission.
ToolRequests == {i \in DOMAIN lines : lines[i].kind = "request" /\ lines[i].tool # NoTool}

\* C28: a permission request that names a tool use sends tool_call with
\* status pending first; while that update is awaited nothing is decided and
\* nothing is answered; the response, if one is written, follows the update,
\* for a cancel as for an approval; and the step that decides records the
\* tool call as completed for a cancel and as in_progress otherwise.
C28_PendingBeforeDecision ==
    /\ [](\A i \in ToolRequests :
            /\ lines[i].out # <<>> /\ lines[i].out[1] = "tool_call:pending"
            /\ lines[i].pc = "p_decide" =>
                  (lines[i].sel = "none" /\ Answers(lines[i]) = {})
            /\ lines[i].pc = "done" =>
                  /\ lines[i].sel \in {"proceed_once", "proceed_always", "cancel"}
                  /\ Answers(lines[i]) \subseteq {2}
                  /\ \A j \in Answers(lines[i]) : lines[i].out[j] = Answer(lines[i]))
    /\ [][\A i \in ToolRequests :
            (lines[i].pc = "p_decide" /\ i \in DOMAIN lines' /\ lines'[i].pc = "done") =>
                toolCallStatus'[lines[i].tool] =
                    IF lines'[i].sel = "cancel" THEN "completed" ELSE "in_progress"]_vars

C28_Witness ==
    \E i \in ToolRequests :
        /\ lines[i].pc = "done"
        /\ lines[i].dm = "medium"
        /\ lines[i].out = <<"tool_call:pending", "response:cancel">>
        /\ toolCallStatus[lines[i].tool] = "completed"

\* C29: a permission request that is answered while the session's mode is
\* low is answered with cancel, whatever it carries.
C29_LowAnswersCancel ==
    \A i \in DOMAIN lines :
        (lines[i].kind = "request" /\ lines[i].pc = "done" /\ lines[i].dm = "low") =>
            lines[i].sel = "cancel"

\* The requests that name a tool use are answered with cancel in mode low.
LowCancelsToolUse ==
    \A i \in ToolRequests :
        (lines[i].pc = "done" /\ lines[i].dm = "low") => lines[i].sel = "cancel"

\* The update that the assistant message started in this step sends for its
\* inline tool-use.
ToolUpdateSent(r) ==
    IF Has(r.out, "tool_call") THEN "tool_call"
    ELSE IF Has(r.out, "tool_call_update") THEN "tool_call_update"
    ELSE "none"

\* C30: an assistant message with an inline tool-use sends no status update
\* and leaves the status as it is when the id is already completed; else it
\* sends tool_call the first time the id is seen and tool_call_update on a
\* later sighting, and the status becomes in_progress.
C30_InlineToolUse ==
    [][(queue # <<>> /\ queue' = Tail(queue) /\ lines' # <<>>) =>
          LET r == lines'[Len(lines')] IN
             (r.kind = "message" /\ r.role = "assistant" /\ r.tool # NoTool) =>
                IF toolCallStatus[r.tool] = "completed"
                THEN /\ ToolUpdateSent(r) = "none"
                     /\ toolCallStatus'[r.tool] = "completed"
                ELSE /\ ToolUpdateSent(r) = IF r.tool \in activeToolCallIds
                                            THEN "tool_call_update" ELSE "tool_call"
                     /\ toolCallStatus'[r.tool] = "in_progress"]_vars

\* The same for the ids that a permission request or an assistant message
\* has shown before, and for the ids that no line has shown.
InlineToolUseOfSeenIds ==
    [][(queue # <<>> /\ queue' = Tail(queue) /\ lines' # <<>>) =>
          LET r == lines'[Len(lines')] IN
             (/\ r.kind = "message" /\ r.role = "assistant" /\ r.tool # NoTool
              /\ (r.tool \in activeToolCallIds \/ toolCallStatus[r.tool] # "completed")) =>
                IF toolCallStatus[r.tool] = "completed"
                THEN /\ ToolUpdateSent(r) = "none"
                     /\ toolCallStatus'[r.tool] = "completed"
                ELSE /\ ToolUpdateSent(r) = IF r.tool \in activeToolCallIds
                                            THEN "tool_call_update" ELSE "tool_call"
                     /\ toolCallStatus'[r.tool] = "in_progress"]_vars

\* C31: a tool_result line sends the update with the content, then, when that
\* one has returned, the update with status completed, and no other; when the
\* line has been processed the recorded status of the id is completed.
C31_ResultThenCompleted ==
    \A i \in DOMAIN lines :
        lines[i].kind = "tool_result" =>
            /\ lines[i].pc \in {"r_status", "end", "done"}
            /\ lines[i].pc = "r_status" =>
                  lines[i].out = <<"tool_result", "update:content">>
            /\ lines[i].pc \in {"end", "done"} =>
                  /\ lines[i].out = <<"tool_result", "update:content", "update:completed">>
                  /\ i = Len(lines) => toolCallStatus[lines[i].tool] = "completed"

C31_Witness ==
    \E i \in DOMAIN lines :
        /\ lines[i].kind = "tool_result"
        /\ lines[i].pc = "done"
        /\ i = Len(lines)
        /\ lines[i].out = <<"tool_result", "update:content", "update:completed">>
        /\ toolCallStatus[lines[i].tool] = "completed"
        /\ queue # <<>>

\* C32: a complete resolves the pending prompt only when the line that makes
\* the adapter emit it was written by the child after that prompt was called;
\* a line written before the call belongs to an earlier turn.
C32_CompleteOfOwnTurn ==
    [][\A p \in PromptIds :
          (promptResolve = p /\ resolved'[p].by = "complete") =>
              lines'[Len(lines')].n >= lastPrompt.at]_vars

\* Between two lines the history variable deferred equals the adapter's flag,
\* so the d0 of a line tells whether the deferred idle was set when it started.
DeferredIsPendingIdle ==
    (\A i \in DOMAIN lines : lines[i].pc = "done") => deferred = pendingIdle

\* The assistant message lines that were started with the deferred idle set
\* and have been processed, no line having started since.
FlushingLines ==
    {i \in DOMAIN lines :
        /\ lines[i].kind = "message" /\ lines[i].role = "assistant"
        /\ lines[i].d0 /\ lines[i].pc = "done" /\ i = Len(lines)}

\* C33: an assistant message line processed while the deferred idle is set
\* emits complete and leaves both flags cleared, whatever it carries.
C33_MessageFlushesIdle ==
    \A i \in FlushingLines :
        /\ Has(lines[i].out, "complete")
        /\ ~pendingIdle
        /\ ~isStreamingAssistant

\* The same for the assistant messages that carry a text or a tool-use; the
\* complete is the last notification of the line, after the message.
MessageWithContentFlushes ==
    \A i \in FlushingLines :
        (lines[i].text \/ lines[i].tool # NoTool) =>
            /\ Before(lines[i].out, "message", "complete")
            /\ ~pendingIdle
            /\ ~isStreamingAssistant

\* What a line's output holds for the client: the sessionUpdate calls.
ClientUpdates ==
    {"chunk", "chunk:error", "tool_call", "tool_call:pending", "tool_call_update",
     "update:content", "update:completed"}

UpdatesOf(r) == SelectSeq(r.out, LAMBDA u : u \in ClientUpdates)

\* The sessionUpdate calls of the line that is being processed.
UpdatesSent == IF lines = <<>> THEN <<>> ELSE UpdatesOf(lines[Len(lines)])

\* C34: once the session is out of the map, cancel having returned or the
\* exit handler having run, no step sends a sessionUpdate for it: a line that
\* starts sends none, and one that is being processed sends no further one.
C34_NoUpdateAfterRemoval ==
    [][~inMap =>
          IF queue' # queue THEN UpdatesSent' = <<>> ELSE UpdatesSent' = UpdatesSent]_vars

\* C35: a prompt that is pending when the child has exited is resolved in
\* the end, although the exit handler removes the session without resolving
\* it; when a timer resolves it, it is resolved with end_turn.
C35_ExitLeavesNoPendingPrompt ==
    /\ \A p \in PromptIds :
          (~childAlive /\ promptResolve = p) ~> (resolved[p].stop # "none")
    /\ [](\A p \in PromptIds :
            resolved[p].by = "timeout" => resolved[p].stop = "end_turn")

\* The same for a prompt that no later prompt call takes out of the slot.
LastPromptResolved ==
    \A p \in PromptIds :
        (~childAlive /\ promptResolve = p) ~> (resolved[p].stop # "none" \/ nPrompts > p)

\* The outcomes of start() with which newSession rejects.
StartFailed == started \in {"process_error", "init_error", "timeout"}

\* C36: when start() has rejected, the session is not in the map and none of
\* the keys that newSession wrote for it is in the config file.
C36_FailedStartLeavesNothing ==
    StartFailed => (~inMap /\ ReadConfig \cap SessionKeys = {})

\* A newSession that fails registers no session.
FailedStartRegistersNothing == StartFailed => ~inMap

\* The tool_call_update calls among a line's output.
ToolCallUpdates == {"tool_call_update", "update:content", "update:completed"}

\* The ids the client has been told about: an id enters activeToolCallIds
\* in the step that sends its tool_call, and never leaves it.
ClientKnows(t) == t \in activeToolCallIds

\* C37: a line that sends a tool_call_update for an id sends it for an id
\* whose tool_call the client has been sent before.
C37_UpdateFollowsToolCall ==
    \A i \in DOMAIN lines :
        (\E u \in ToolCallUpdates : Has(lines[i].out, u)) => ClientKnows(lines[i].tool)

\* The same for the updates of the assistant messages alone.
MessageUpdateFollowsToolCall ==
    \A i \in DOMAIN lines :
        Has(lines[i].out, "tool_call_update") => ClientKnows(lines[i].tool)

\* The status that a line's updates have delivered to the client for its id.
StatusSent(r) ==
    IF Has(r.out, "update:completed") THEN "completed"
    ELSE IF Has(r.out, "tool_call") \/ Has(r.out, "tool_call_update") THEN "in_progress"
    ELSE IF Has(r.out, "tool_call:pending") THEN "pending"
    ELSE "none"

\* The lines that have been processed and delivered a status, no line having
\* started since.
StatusLines ==
    {i \in DOMAIN lines :
        i = Len(lines) /\ lines[i].pc = "done" /\ StatusSent(lines[i]) # "none"}

C39_ModeIsKnown ==
    /\ mode \in DOMAIN ModeTable
    /\ (lastSet.op = "mode" /\ lastSet.arg \notin DOMAIN ModeTable) => lastSet.wrote = "none"

\* A setSessionMode with another mode id forwards nothing to the child.
UnknownModeForwardsNothing ==
    (lastSet.op = "mode" /\ lastSet.arg \notin DOMAIN ModeTable) => lastSet.wrote = "none"

\* C40: between two lines the deferred idle is set only while the streaming
\* flag is set, and in every state the adapter has emitted no more completes
\* than it has handled idle lines.
C40_IdlePaysComplete ==
    /\ (\A i \in DOMAIN lines : lines[i].pc = "done") =>
          (pendingIdle => isStreamingAssistant)
    /\ tally.complete <= tally.idle

C40_Witness ==
    /\ tally = [idle |-> 2, complete |-> 2]
    /\ \E i \in DOMAIN lines :
          /\ lines[i].kind = "message"
          /\ lines[i].d0
          /\ lines[i].pc = "done"
          /\ Has(lines[i].out, "complete")

====
